---- MODULE Spec2Model ----
(***************************************************************************)
(* A model of Shell.c: the line parser (parse_command), the executor       *)
(* (execute_commands) with the processes and descriptors it creates, and   *)
(* the read-execute loop of main.                                          *)
(*                                                                         *)
(* Strings are sequences of one-character strings.  A char* is either such *)
(* a sequence (the text from the pointer to the terminating NUL), NULL, or *)
(* GARBAGE (an uninitialised pointer).                                     *)
(***************************************************************************)
EXTENDS Integers, Sequences, FiniteSets, TLC

\* ------------------------------------------------------------ constants
MAX_ARGS == 128
MAX_PIPE == 16

\* ------------------------------------------------------------ bounds
\* number of fragments a parser input line is made of
MaxFrags == 5
\* number of '|'-joined stage texts of an executor input line
MaxStages == 3
\* number of lines the driver reads before end-of-input is forced
MaxLines == 2
\* number of processes the system lets the shell create
MaxProcs == 3

NULL == <<"NULL">>
GARBAGE == <<"GARBAGE">>
UNREAD == <<"UNREAD">>

\* ------------------------------------------------------------ C library
isspace(c) == c \in {" ", "\t", "\n", "\r", "\f"}

Tail1(s) == SubSeq(s, 2, Len(s))
Front1(s) == SubSeq(s, 1, Len(s) - 1)

RECURSIVE SkipLeading(_)
SkipLeading(str) ==
    IF str # <<>> /\ isspace(str[1]) THEN SkipLeading(Tail1(str)) ELSE str

RECURSIVE CutTrailing(_)
CutTrailing(str) ==
    IF Len(str) > 1 /\ isspace(str[Len(str)]) THEN CutTrailing(Front1(str)) ELSE str

trim_whitespace(str) ==
    IF str = NULL THEN NULL
    ELSE LET s == SkipLeading(str) IN
         IF s = <<>> THEN s ELSE CutTrailing(s)

\* index of the first character of s from k on that is in delim, where there is one
RECURSIVE Scan(_, _, _)
Scan(s, delim, k) == IF s[k] \in delim THEN k ELSE Scan(s, delim, k + 1)

\* index of the first character of s that is in delim, 0 if there is none
FirstDelim(s, delim) ==
    IF \A k \in 1..Len(s) : s[k] \notin delim THEN 0 ELSE Scan(s, delim, 1)

\* strsep(&ptr, delim): the token returned and the new value of ptr
strsep(ptr, delim) ==
    IF ptr = NULL THEN [token |-> NULL, ptr |-> NULL]
    ELSE LET k == FirstDelim(ptr, delim) IN
         IF k = 0 THEN [token |-> ptr, ptr |-> NULL]
         ELSE [token |-> SubSeq(ptr, 1, k - 1), ptr |-> SubSeq(ptr, k + 1, Len(ptr))]

\* ------------------------------------------------------------ Command
\* The array char *args[MAX_ARGS] is kept as the value `rest` that its slots
\* hold from some index on and the sequence `at` of the slots before that index
\* (the last of them different from `rest`): element k is ArgAt(args, k), and a
\* store is ArgPut.
ArgsOf(v) == [rest |-> v, at |-> <<>>]

ArgAt(args, k) == IF k < Len(args.at) THEN args.at[k + 1] ELSE args.rest

\* a sequence without the elements v it ends with
RECURSIVE CutRest(_, _)
CutRest(at, v) ==
    IF at # <<>> /\ at[Len(at)] = v THEN CutRest(Front1(at), v) ELSE at

ArgPut(args, k, v) ==
    IF k < Len(args.at) THEN
        [args EXCEPT !.at = CutRest([args.at EXCEPT ![k + 1] = v], args.rest)]
    ELSE IF v = args.rest THEN args
    ELSE [args EXCEPT !.at = args.at \o [x \in 1..(k - Len(args.at)) |-> args.rest]
                                     \o <<v>>]

\* lines 117-119: every slot set to NULL
NoArgs == ArgsOf(NULL)

\* a Command of main's uninitialised array (line 385): no field may be read
GarbageCommand ==
    [args |-> ArgsOf(GARBAGE),
     input_file |-> GARBAGE, output_file |-> GARBAGE, background |-> GARBAGE]

\* lines 113-119: the Command a segment starts from
InitCommand ==
    [args |-> NoArgs, input_file |-> NULL, output_file |-> NULL, background |-> FALSE]

\* ------------------------------------------------------------ messages
NoMsg == [msg |-> "", n |-> 0]
Msg(m, k) == [msg |-> m, n |-> k]

\* ------------------------------------------------------------ parse_command
\* SplitLoop that cuts the line nowhere
SplitLoop_Whole(line_ptr, segments) ==
    [rc |-> 0, segments |-> <<line_ptr>>, err |-> NoMsg]

\* SplitLoop refusing the segment that fills segments[]
RECURSIVE SplitLoop_OneLess(_, _)
SplitLoop_OneLess(line_ptr, segments) ==
    LET r == strsep(line_ptr, {"|"}) IN
    IF r.token = NULL THEN [rc |-> 0, segments |-> segments, err |-> NoMsg]
    ELSE IF r.token = <<>> THEN
        [rc |-> -1, segments |-> segments,
         err |-> Msg("shell: syntax error near unexpected token '|'", 0)]
    ELSE IF Len(segments) >= MAX_PIPE - 1 THEN
        [rc |-> -1, segments |-> segments,
         err |-> Msg("shell: too many pipeline segments (max %d)", MAX_PIPE)]
    ELSE SplitLoop_OneLess(r.ptr, Append(segments, r.token))

\* lines 86-97: split the line on '|'
RECURSIVE SplitLoop(_, _)
SplitLoop(line_ptr, segments) ==
    LET r == strsep(line_ptr, {"|"}) IN
    IF r.token = NULL THEN [rc |-> 0, segments |-> segments, err |-> NoMsg]
    ELSE IF r.token = <<>> THEN
        [rc |-> -1, segments |-> segments,
         err |-> Msg("shell: syntax error near unexpected token '|'", 0)]
    ELSE IF Len(segments) >= MAX_PIPE THEN
        [rc |-> -1, segments |-> segments,
         err |-> Msg("shell: too many pipeline segments (max %d)", MAX_PIPE)]
    ELSE SplitLoop(r.ptr, Append(segments, r.token))

\* SkipEmpty that skips nothing: the operand is the token right after the operator
SkipEmpty_Never(r) == r

\* lines 135-137 / 152-154: skip the empty tokens after a redirection operator
RECURSIVE SkipEmpty(_)
SkipEmpty(r) ==
    IF r.token # NULL /\ r.token = <<>> THEN SkipEmpty(strsep(r.ptr, {" ", "\t"}))
    ELSE r

\* lines 173-181: nothing but whitespace is left after '&'
OnlySpaces(remain) ==
    remain = NULL \/ \A k \in 1..Len(remain) : isspace(remain[k])

\* the locals of the token loop; rc and err are set where the code returns -1,
\* done where the loop is left
TokStart(segment) ==
    [token_ptr |-> segment, cmd |-> InitCommand, arg_index |-> 0,
     input_count |-> 0, output_count |-> 0, rc |-> 0, err |-> NoMsg, done |-> FALSE]

TokFail(t, m, k) == [t EXCEPT !.rc = -1, !.err = Msg(m, k), !.done = TRUE]

\* TokenBody without the test of line 168, i != segment_count - 1
TokenBody_AmpAnywhere(t, i, segment_count) ==
    LET r == strsep(t.token_ptr, {" ", "\t"}) IN
    IF r.token = NULL THEN [t EXCEPT !.token_ptr = r.ptr, !.done = TRUE]
    ELSE IF r.token = <<>> THEN [t EXCEPT !.token_ptr = r.ptr]
    ELSE IF r.token = <<"<">> THEN
        LET f == SkipEmpty(strsep(r.ptr, {" ", "\t"})) IN
        IF f.token = NULL THEN
            TokFail(t, "syntax error near unexpected token '<'", 0)
        ELSE IF t.input_count > 0 THEN
            TokFail(t, "cannot redirect input more than once", 0)
        ELSE [t EXCEPT !.token_ptr = f.ptr, !.cmd.input_file = f.token,
                       !.input_count = @ + 1]
    ELSE IF r.token = <<">">> THEN
        LET f == SkipEmpty(strsep(r.ptr, {" ", "\t"})) IN
        IF f.token = NULL THEN
            TokFail(t, "syntax error near unexpected token '>'", 0)
        ELSE IF t.output_count > 0 THEN
            TokFail(t, "cannot redirect output more than once", 0)
        ELSE [t EXCEPT !.token_ptr = f.ptr, !.cmd.output_file = f.token,
                       !.output_count = @ + 1]
    ELSE IF r.token = <<"&">> THEN
        IF ~OnlySpaces(r.ptr) THEN
            TokFail(t, "syntax error near unexpected token '&'", 0)
        ELSE [t EXCEPT !.token_ptr = r.ptr, !.cmd.background = TRUE, !.done = TRUE]
    ELSE IF t.arg_index < MAX_ARGS - 1 THEN
        [t EXCEPT !.token_ptr = r.ptr, !.cmd.args = ArgPut(@, t.arg_index, r.token),
                  !.arg_index = @ + 1]
    ELSE TokFail(t, "too many arguments (max %d)", MAX_ARGS - 1)

\* lines 127-195: the test of the while and one pass through its body,
\* in segment i
TokenBody(t, i, segment_count) ==
    LET r == strsep(t.token_ptr, {" ", "\t"}) IN
    IF r.token = NULL THEN [t EXCEPT !.token_ptr = r.ptr, !.done = TRUE]
    ELSE IF r.token = <<>> THEN [t EXCEPT !.token_ptr = r.ptr]
    ELSE IF r.token = <<"<">> THEN
        LET f == SkipEmpty(strsep(r.ptr, {" ", "\t"})) IN
        IF f.token = NULL THEN
            TokFail(t, "syntax error near unexpected token '<'", 0)
        ELSE IF t.input_count > 0 THEN
            TokFail(t, "cannot redirect input more than once", 0)
        ELSE [t EXCEPT !.token_ptr = f.ptr, !.cmd.input_file = f.token,
                       !.input_count = @ + 1]
    ELSE IF r.token = <<">">> THEN
        LET f == SkipEmpty(strsep(r.ptr, {" ", "\t"})) IN
        IF f.token = NULL THEN
            TokFail(t, "syntax error near unexpected token '>'", 0)
        ELSE IF t.output_count > 0 THEN
            TokFail(t, "cannot redirect output more than once", 0)
        ELSE [t EXCEPT !.token_ptr = f.ptr, !.cmd.output_file = f.token,
                       !.output_count = @ + 1]
    ELSE IF r.token = <<"&">> THEN
        IF i # segment_count - 1 THEN
            TokFail(t, "'&' can only appear at end of command", 0)
        ELSE IF ~OnlySpaces(r.ptr) THEN
            TokFail(t, "syntax error near unexpected token '&'", 0)
        ELSE [t EXCEPT !.token_ptr = r.ptr, !.cmd.background = TRUE, !.done = TRUE]
    ELSE IF t.arg_index < MAX_ARGS - 1 THEN
        [t EXCEPT !.token_ptr = r.ptr, !.cmd.args = ArgPut(@, t.arg_index, r.token),
                  !.arg_index = @ + 1]
    ELSE TokFail(t, "too many arguments (max %d)", MAX_ARGS - 1)

\* the passes of the token loop over a segment are no more than this: every
\* pass takes a character off the segment, but the last two
Passes(segment) == Len(segment) + 2

\* lines 127-196: the token loop of segment i, run for at most n passes (the two
\* halves one after the other)
RECURSIVE TokenLoop(_, _, _, _)
TokenLoop(t, i, segment_count, n) ==
    IF t.done \/ n = 0 THEN t
    ELSE IF n = 1 THEN TokenBody(t, i, segment_count)
    ELSE CHOOSE r \in { TokenLoop(half, i, segment_count, n - (n \div 2)) :
                            half \in { TokenLoop(t, i, segment_count, n \div 2) } } : TRUE

\* SegmentLoop without the test arg_index == 0 of lines 198-202
RECURSIVE SegmentLoop_NoCommandTest(_, _, _)
SegmentLoop_NoCommandTest(i, segments, commands) ==
    IF i >= Len(segments) THEN [rc |-> 0, commands |-> commands, err |-> NoMsg]
    ELSE
    LET seg == trim_whitespace(segments[i + 1]) IN
    IF seg = <<>> THEN
        [rc |-> -1, commands |-> commands,
         err |-> IF Len(segments) > 1 THEN Msg("missing command in pipeline", 0)
                 ELSE Msg("missing command", 0)]
    ELSE
    LET t == TokenLoop(TokStart(seg), i, Len(segments), Passes(seg)) IN
    IF t.rc # 0 THEN
        [rc |-> -1, commands |-> [commands EXCEPT ![i] = t.cmd], err |-> t.err]
    ELSE
    LET cmd == [t.cmd EXCEPT !.args = ArgPut(@, t.arg_index, NULL)] IN
    SegmentLoop_NoCommandTest(i + 1, segments, [commands EXCEPT ![i] = cmd])

\* SegmentLoop without line 114 (cmd->input_file = NULL): the Command keeps the
\* input file the array held
RECURSIVE SegmentLoop_NoInit(_, _, _)
SegmentLoop_NoInit(i, segments, commands) ==
    IF i >= Len(segments) THEN [rc |-> 0, commands |-> commands, err |-> NoMsg]
    ELSE
    LET seg == trim_whitespace(segments[i + 1]) IN
    IF seg = <<>> THEN
        [rc |-> -1, commands |-> commands,
         err |-> IF Len(segments) > 1 THEN Msg("missing command in pipeline", 0)
                 ELSE Msg("missing command", 0)]
    ELSE
    LET t == TokenLoop([TokStart(seg) EXCEPT !.cmd.input_file = commands[i].input_file],
                       i, Len(segments), Passes(seg)) IN
    IF t.rc # 0 THEN
        [rc |-> -1, commands |-> [commands EXCEPT ![i] = t.cmd], err |-> t.err]
    ELSE
    LET cmd == [t.cmd EXCEPT !.args = ArgPut(@, t.arg_index, NULL)] IN
    IF t.arg_index = 0 THEN
        [rc |-> -1, commands |-> [commands EXCEPT ![i] = cmd],
         err |-> Msg("missing command", 0)]
    ELSE SegmentLoop_NoInit(i + 1, segments, [commands EXCEPT ![i] = cmd])

\* lines 100-203: parse the segments from index i on
RECURSIVE SegmentLoop(_, _, _)
SegmentLoop(i, segments, commands) ==
    IF i >= Len(segments) THEN [rc |-> 0, commands |-> commands, err |-> NoMsg]
    ELSE
    LET seg == trim_whitespace(segments[i + 1]) IN
    IF seg = <<>> THEN
        [rc |-> -1, commands |-> commands,
         err |-> IF Len(segments) > 1 THEN Msg("missing command in pipeline", 0)
                 ELSE Msg("missing command", 0)]
    ELSE
    LET t == TokenLoop(TokStart(seg), i, Len(segments), Passes(seg)) IN
    IF t.rc # 0 THEN
        [rc |-> -1, commands |-> [commands EXCEPT ![i] = t.cmd], err |-> t.err]
    ELSE
    LET cmd == [t.cmd EXCEPT !.args = ArgPut(@, t.arg_index, NULL)] IN
    IF t.arg_index = 0 THEN
        [rc |-> -1, commands |-> [commands EXCEPT ![i] = cmd],
         err |-> Msg("missing command", 0)]
    ELSE SegmentLoop(i + 1, segments, [commands EXCEPT ![i] = cmd])

\* ValidateLoop printing i where the code prints i + 1
RECURSIVE ValidateLoop_ZeroBased(_, _, _)
ValidateLoop_ZeroBased(i, segment_count, commands) ==
    IF i >= segment_count THEN NoMsg
    ELSE IF i # 0 /\ commands[i].input_file # NULL THEN
        Msg("input redirection not allowed for command %d in pipeline", i)
    ELSE IF i # segment_count - 1 /\ commands[i].output_file # NULL THEN
        Msg("output redirection not allowed for command %d in pipeline", i)
    ELSE ValidateLoop_ZeroBased(i + 1, segment_count, commands)

\* lines 206-217: redirections are allowed on the first and last stage only
RECURSIVE ValidateLoop(_, _, _)
ValidateLoop(i, segment_count, commands) ==
    IF i >= segment_count THEN NoMsg
    ELSE IF i # 0 /\ commands[i].input_file # NULL THEN
        Msg("input redirection not allowed for command %d in pipeline", i + 1)
    ELSE IF i # segment_count - 1 /\ commands[i].output_file # NULL THEN
        Msg("output redirection not allowed for command %d in pipeline", i + 1)
    ELSE ValidateLoop(i + 1, segment_count, commands)

\* lines 76-221: rc, the commands array and *num_commands after the call
parse_command(input, commands, num_commands) ==
    IF input = NULL THEN
        [rc |-> -1, commands |-> commands, num_commands |-> num_commands, err |-> NoMsg]
    ELSE
    LET s == SplitLoop(input, <<>>) IN
    IF s.rc # 0 THEN
        [rc |-> -1, commands |-> commands, num_commands |-> num_commands, err |-> s.err]
    ELSE
    LET p == SegmentLoop(0, s.segments, commands) IN
    IF p.rc # 0 THEN
        [rc |-> -1, commands |-> p.commands, num_commands |-> num_commands, err |-> p.err]
    ELSE
    LET v == IF Len(s.segments) > 1 THEN ValidateLoop(0, Len(s.segments), p.commands)
             ELSE NoMsg IN
    IF v # NoMsg THEN
        [rc |-> -1, commands |-> p.commands, num_commands |-> num_commands, err |-> v]
    ELSE
        [rc |-> 0, commands |-> p.commands, num_commands |-> Len(s.segments),
         err |-> NoMsg]

\* ------------------------------------------------------------ input lines
\* the fragments parser input lines are made of
ParseFrags ==
    { <<"a">>, <<" ">>, <<"|">>, <<"<">>, <<">">>, <<"&">>, <<"\r">>,
      <<" ", "<", " ">>, <<" ", ">", " ">> }

RECURSIVE Concats(_, _)
Concats(frags, n) ==
    IF n = 0 THEN {<<>>}
    ELSE LET prev == Concats(frags, n - 1) IN
         prev \cup { l \o f : l \in prev, f \in frags }

\* n words "a" separated by single spaces
RECURSIVE Words(_)
Words(n) ==
    IF n = 1 THEN <<"a">>
    ELSE Words(n \div 2) \o <<" ">> \o Words(n - (n \div 2))

\* a first stage followed by n - 1 further stages running "a"
RECURSIVE Joined(_, _)
Joined(first, n) ==
    IF n = 1 THEN first ELSE Joined(first, n - 1) \o <<"|", "a">>

\* the lines one past the capacity of segments[] and of args[]
OverflowLines == { Joined(<<"a">>, MAX_PIPE + 1), Words(MAX_ARGS) }

\* the longest lines those arrays hold
FullLines == { Joined(<<"a">>, MAX_PIPE), Words(MAX_ARGS - 1) }

ParseLines == Concats(ParseFrags, MaxFrags) \cup OverflowLines \cup FullLines

\* the stage texts executor input lines are made of ("a" is an external program)
StageTexts == { <<"a">>, <<"e", "x", "i", "t">>, <<"c", "d">>, <<"c", "d", " ", "d">>, <<>> }

\* what may follow the last stage of an executor input line
LineTails ==
    { <<>>, <<" ", "&">>, <<" ", "<", " ", "f">>, <<" ", ">", " ", "f">>, <<" ", "<">>,
      <<" ", "&", " ", "a">>,
      <<" ", ">", " ", "f", " ", ">", " ", "f">> }

\* the executor input lines: every length and tail for the external program and
\* for the empty stage; the built-in words alone and in a pipeline of two, in the
\* foreground and in the background
ExecLines ==
    { Joined(x[1], x[2]) \o x[3] :
        x \in { y \in StageTexts \X (1..MaxStages) \X LineTails :
                   \/ y[1] \in { <<"a">>, <<>> }
                   \/ y[2] <= 2 /\ y[3] \in { <<>>, <<" ", "&">> } } }

\* ------------------------------------------------------------ descriptors
\* size of a process's descriptor table
NFD == 6
STDIN_FILENO == 0
STDOUT_FILENO == 1

Closed == [kind |-> "closed", id |-> 0]
Tty == [kind |-> "tty", id |-> 0]
FileIn == [kind |-> "file_in", id |-> 0]
FileOut == [kind |-> "file_out", id |-> 0]
PipeR(k) == [kind |-> "pipe_r", id |-> k]
PipeW(k) == [kind |-> "pipe_w", id |-> k]

\* the pipe created for stage s by the execute_commands call of line c
PipeId(c, s) == c * MAX_PIPE + s

NoFds == [f \in 0..(NFD - 1) |-> Closed]
ShellFds == [f \in 0..(NFD - 1) |-> IF f <= 2 THEN Tty ELSE Closed]

FreeFds(t) == { f \in DOMAIN t : t[f] = Closed }
Lowest(S) == CHOOSE f \in S : \A g \in S : f <= g

close(t, fd) == IF fd \in DOMAIN t THEN [t EXCEPT ![fd] = Closed] ELSE t
dup2(t, old, new) ==
    IF old \in DOMAIN t /\ new \in DOMAIN t /\ t[old] # Closed
    THEN [t EXCEPT ![new] = t[old]] ELSE t

\* the descriptors of table t that are pipe ends
PipeFds(t) == { f \in DOMAIN t : t[f].kind \in {"pipe_r", "pipe_w"} }

\* ------------------------------------------------------------ processes
Pids == 1..MaxProcs
NoPid == -1
GarbageFd == -9
NoCode == -1
\* line 338: redirect_io has not been called yet
NotCalled == 2

\* what a child reads of its copy of commands[i] (lines 338-343)
ChildCommand(cmd) ==
    [name |-> ArgAt(cmd.args, 0), input_file |-> cmd.input_file, output_file |-> cmd.output_file]

NoProc ==
    [st |-> "none", call |-> 0, i |-> 0, n |-> 0, prev_fd |-> -1,
     pipefd |-> <<GarbageFd, GarbageFd>>, cmd |-> ChildCommand(InitCommand),
     fds |-> NoFds, code |-> NoCode, cwd |-> <<>>, rio |-> NotCalled]

IsWord(cmd, w) == ArgAt(cmd.args, 0) = w
ExitWord == <<"e", "x", "i", "t">>
CdWord == <<"c", "d">>

VARIABLES line, commands, num_commands, err, pc, nread,
          status, exit_status, cwd, home,
          i, prev_fd, pipefd, launched, pids, pid, j,
          fds, procs, nprocs, out

parserVars == <<line, commands, num_commands, err, nread>>
localVars == <<i, prev_fd, pipefd, launched, pids, pid, j>>
osVars == <<fds, procs, nprocs, out, cwd, home>>
execVars == <<status, exit_status, cwd, home, i, prev_fd, pipefd, launched, pids, pid,
              j, fds, procs, nprocs, out>>
vars == <<line, commands, num_commands, err, pc, nread, execVars>>

\* the locals of execute_commands outside a call
NoPids == [k \in 0..(MAX_PIPE - 1) |-> NoPid]

Init ==
    /\ line = <<>>
    /\ commands = [k \in 0..(MAX_PIPE - 1) |-> GarbageCommand]
    /\ num_commands = 0
    /\ err = NoMsg
    /\ pc = "read"
    /\ nread = 0
    /\ status = 1
    /\ exit_status = NoCode
    /\ cwd = <<"/">>
    /\ home = UNREAD
    /\ i = 0 /\ prev_fd = -1 /\ pipefd = <<GarbageFd, GarbageFd>>
    /\ launched = 0 /\ pids = NoPids /\ pid = NoPid /\ j = 0
    /\ fds = ShellFds
    /\ procs = [p \in Pids |-> NoProc]
    /\ nprocs = 0
    /\ out = <<>>

\* lines 405-408: drop the newline getline left at the end of the line
StripNewline(input_line) ==
    IF Len(input_line) > 0 /\ input_line[Len(input_line)] = "\n"
    THEN Front1(input_line) ELSE input_line

\* main, lines 397-412: read a line, strip the newline, trim, skip an empty line;
\* end of input leaves the loop (lines 398-404, 431-432)
ReadFrom(lines, max) ==
    /\ pc = "read"
    /\ \/ /\ pc' = "done"
          /\ exit_status' = 0
          /\ UNCHANGED <<line, nread>>
       \/ /\ nread < max
          /\ \E l \in lines :
                LET trimmed == trim_whitespace(StripNewline(l \o <<"\n">>)) IN
                /\ line' = trimmed
                /\ pc' = IF trimmed = <<>> THEN "read" ELSE "parse"
          /\ nread' = nread + 1
          /\ UNCHANGED exit_status
    /\ UNCHANGED <<commands, num_commands, err, status, localVars, osVars>>

\* ParseLine ignoring the result of parse_command
ParseLine_IgnoreRc ==
    /\ pc = "parse"
    /\ LET r == parse_command(line, commands, num_commands) IN
       /\ commands' = r.commands
       /\ num_commands' = r.num_commands
       /\ err' = r.err
       /\ pc' = "exec"
       /\ line' = line
    /\ UNCHANGED <<nread, execVars>>

\* main, lines 415-418; err is what the call wrote to stderr.  Back at getline the
\* old text of the line buffer is dead: the model drops it there.
ParseLine ==
    /\ pc = "parse"
    /\ LET r == parse_command(line, commands, num_commands) IN
       /\ commands' = r.commands
       /\ num_commands' = r.num_commands
       /\ err' = r.err
       /\ pc' = IF r.rc # 0 THEN "read" ELSE "exec"
       /\ line' = IF r.rc # 0 THEN <<>> ELSE line
    /\ UNCHANGED <<nread, execVars>>

\* ------------------------------------------------------------ execute_commands
\* execute_commands returns s to main (lines 420-424): 2 leaves the loop, and main
\* returns 0; anything else goes on to the reaper.  The locals die with the call.
Return(s) ==
    /\ status' = s
    /\ pc' = IF s = 2 THEN "done" ELSE "reap"
    /\ exit_status' = IF s = 2 THEN 0 ELSE exit_status
    /\ i' = 0 /\ prev_fd' = -1 /\ pipefd' = <<GarbageFd, GarbageFd>>
    /\ launched' = 0 /\ pids' = NoPids /\ pid' = NoPid /\ j' = 0

\* BuiltinExit without the test num_commands == 1
BuiltinExit_AnyStage ==
    /\ pc = "exec"
    /\ IsWord(commands[0], ExitWord)
    /\ Return(2)
    /\ UNCHANGED <<parserVars, osVars>>

\* lines 274-281: the exit built-in
BuiltinExit ==
    /\ pc = "exec"
    /\ num_commands = 1
    /\ IsWord(commands[0], ExitWord)
    /\ Return(2)
    /\ UNCHANGED <<parserVars, osVars>>

\* line 286: the value of HOME in the environment, which the shell never changes:
\* unset (NULL) or a directory, settled the first time it is looked up
getenv_HOME == IF home = UNREAD THEN {NULL, <<"h">>} ELSE {home}

\* BuiltinCd without the test num_commands == 1
BuiltinCd_AnyStage ==
    /\ pc = "exec"
    /\ IsWord(commands[0], CdWord)
    /\ LET arg == ArgAt(commands[0].args, 1) IN
       \E h \in getenv_HOME, ok \in BOOLEAN :
          LET dir == IF arg # NULL THEN arg ELSE IF h # NULL THEN h ELSE <<".">> IN
          /\ home' = IF arg = NULL THEN h ELSE home
          /\ cwd' = IF ok /\ dir # <<".">> THEN dir ELSE cwd
          /\ err' = IF ok THEN err ELSE Msg("cd: %s: %s", 0)
    /\ Return(1)
    /\ UNCHANGED <<line, commands, num_commands, nread, fds, procs, nprocs, out>>

\* lines 282-295: the cd built-in; whether the directory can be entered is the
\* file system's choice, and the directory entered is known by the path given
BuiltinCd ==
    /\ pc = "exec"
    /\ num_commands = 1
    /\ IsWord(commands[0], CdWord)
    /\ LET arg == ArgAt(commands[0].args, 1) IN
       \E h \in getenv_HOME, ok \in BOOLEAN :
          LET dir == IF arg # NULL THEN arg ELSE IF h # NULL THEN h ELSE <<".">> IN
          /\ home' = IF arg = NULL THEN h ELSE home
          /\ cwd' = IF ok /\ dir # <<".">> THEN dir ELSE cwd
          /\ err' = IF ok THEN err ELSE Msg("cd: %s: %s", 0)
    /\ Return(1)
    /\ UNCHANGED <<line, commands, num_commands, nread, fds, procs, nprocs, out>>

\* lines 270-301: nothing to execute (defensive), or the start of the spawn loop
ExecStart ==
    /\ pc = "exec"
    /\ ~(num_commands = 1 /\ IsWord(commands[0], ExitWord))
    /\ ~(num_commands = 1 /\ IsWord(commands[0], CdWord))
    /\ IF num_commands <= 0 \/ (num_commands = 1 /\ ArgAt(commands[0].args, 0) = NULL)
       THEN Return(1)
       ELSE /\ pc' = "loop"
            /\ i' = 0 /\ prev_fd' = -1 /\ launched' = 0
            /\ UNCHANGED <<status, exit_status, pipefd, pids, pid, j>>
    /\ UNCHANGED <<parserVars, osVars>>

\* line 303: the loop ends after the last stage
LoopDone ==
    /\ pc = "loop"
    /\ i >= num_commands
    /\ pc' = "close"
    /\ UNCHANGED <<parserVars, status, exit_status, localVars, osVars>>

\* lines 305-311: pipe() succeeds: the two lowest free descriptors
PipeOK ==
    /\ pc = "loop"
    /\ i < num_commands - 1
    /\ Cardinality(FreeFds(fds)) >= 2
    /\ LET r == Lowest(FreeFds(fds))
           w == Lowest(FreeFds(fds) \ {r})
       IN /\ fds' = [fds EXCEPT ![r] = PipeR(PipeId(nread, i)),
                                ![w] = PipeW(PipeId(nread, i))]
          /\ pipefd' = <<r, w>>
    /\ pc' = "fork"
    /\ UNCHANGED <<parserVars, status, exit_status, i, prev_fd, launched, pids, pid, j,
                   procs, nprocs, out, cwd, home>>

\* lines 307-310: pipe() fails
PipeFail ==
    /\ pc = "loop"
    /\ i < num_commands - 1
    /\ pc' = "close"
    /\ UNCHANGED <<parserVars, status, exit_status, localVars, osVars>>

\* the parent is at the fork() of line 313 (the last stage creates no pipe)
AtFork == pc = "fork" \/ (pc = "loop" /\ i = num_commands - 1)

\* line 313: fork() succeeds; the child starts with a copy of the parent's memory
\* and descriptors
ForkOK ==
    /\ AtFork
    /\ nprocs < MaxProcs
    /\ LET p == nprocs + 1
           pfd == IF pc = "fork" THEN pipefd ELSE <<GarbageFd, GarbageFd>>
       IN /\ procs' = [procs EXCEPT ![p] =
                [st |-> "forked", call |-> nread, i |-> i, n |-> num_commands,
                 prev_fd |-> prev_fd, pipefd |-> pfd,
                 cmd |-> ChildCommand(commands[i]),
                 fds |-> fds, code |-> NoCode, cwd |-> cwd, rio |-> NotCalled]]
          /\ pid' = p
          /\ pipefd' = pfd
    /\ nprocs' = nprocs + 1
    /\ pc' = "parent"
    /\ UNCHANGED <<parserVars, status, exit_status, i, prev_fd, launched, pids, j,
                   fds, out, cwd, home>>

\* ForkFail forgetting close(pipefd[1])
ForkFail_Leak ==
    /\ AtFork
    /\ fds' = IF i < num_commands - 1 THEN close(fds, pipefd[1]) ELSE fds
    /\ pc' = "close"
    /\ UNCHANGED <<parserVars, status, exit_status, localVars, procs, nprocs, out,
                   cwd, home>>

\* lines 314-321: fork() fails
ForkFail ==
    /\ AtFork
    /\ fds' = IF i < num_commands - 1
              THEN close(close(fds, pipefd[1]), pipefd[2]) ELSE fds
    /\ pc' = "close"
    /\ UNCHANGED <<parserVars, status, exit_status, localVars, procs, nprocs, out,
                   cwd, home>>

\* ParentBranch without close(pipefd[1]) of line 352: the shell keeps the write end
ParentBranch_KeepWrite ==
    /\ pc = "parent"
    /\ pids' = [pids EXCEPT ![launched] = pid]
    /\ launched' = launched + 1
    /\ fds' = IF prev_fd # -1 THEN close(fds, prev_fd) ELSE fds
    /\ prev_fd' = IF i < num_commands - 1 THEN pipefd[1] ELSE prev_fd
    /\ i' = i + 1
    /\ pc' = "loop"
    /\ UNCHANGED <<parserVars, status, exit_status, pipefd, pid, j, procs, nprocs, out,
                   cwd, home>>

\* lines 346-355: the parent after a successful fork()
ParentBranch ==
    /\ pc = "parent"
    /\ pids' = [pids EXCEPT ![launched] = pid]
    /\ launched' = launched + 1
    /\ LET t == IF prev_fd # -1 THEN close(fds, prev_fd) ELSE fds IN
       IF i < num_commands - 1
       THEN /\ fds' = close(t, pipefd[2])
            /\ prev_fd' = pipefd[1]
       ELSE /\ fds' = t
            /\ UNCHANGED prev_fd
    /\ i' = i + 1
    /\ pc' = "loop"
    /\ UNCHANGED <<parserVars, status, exit_status, pipefd, pid, j, procs, nprocs, out,
                   cwd, home>>

\* ClosePrev without the close of lines 358-360
ClosePrev_Leak ==
    /\ pc = "close"
    /\ fds' = fds
    /\ pc' = IF commands[num_commands - 1].background THEN "notify" ELSE "wait"
    /\ j' = 0
    /\ UNCHANGED <<parserVars, status, exit_status, i, prev_fd, pipefd, launched, pids,
                   pid, procs, nprocs, out, cwd, home>>

\* lines 357-363: close the read end left over, then look at the background flag
ClosePrev ==
    /\ pc = "close"
    /\ fds' = IF prev_fd # -1 THEN close(fds, prev_fd) ELSE fds
    /\ pc' = IF commands[num_commands - 1].background THEN "notify" ELSE "wait"
    /\ j' = 0
    /\ UNCHANGED <<parserVars, status, exit_status, i, prev_fd, pipefd, launched, pids,
                   pid, procs, nprocs, out, cwd, home>>

\* what reading pids[k] yields: the element, or, outside the array, whatever the
\* stack holds there
ReadPids(k) ==
    IF k \in 0..(MAX_PIPE - 1) THEN {pids[k]} ELSE {NoPid} \cup (0..MaxProcs)

\* lines 363-366, 372: the background notification
Notify ==
    /\ pc = "notify"
    /\ \E v \in ReadPids(launched - 1) :
          out' = Append(out, [call |-> nread, launched |-> launched, printed |-> v])
    /\ Return(1)
    /\ UNCHANGED <<parserVars, fds, procs, nprocs, cwd, home>>

\* WaitChild with WNOHANG: it does not wait for the child to terminate
WaitChild_NoHang ==
    /\ pc = "wait"
    /\ j < launched
    /\ procs' = [procs EXCEPT ![pids[j]].st = IF @ = "zombie" THEN "reaped" ELSE @]
    /\ j' = j + 1
    /\ UNCHANGED <<parserVars, pc, status, exit_status, i, prev_fd, pipefd, launched,
                   pids, pid, fds, nprocs, out, cwd, home>>

\* lines 368-370: waitpid(pids[j], NULL, 0) returns once that child has terminated
WaitChild ==
    /\ pc = "wait"
    /\ j < launched
    /\ procs[pids[j]].st \in {"zombie", "reaped"}
    /\ procs' = [procs EXCEPT ![pids[j]].st = "reaped"]
    /\ j' = j + 1
    /\ UNCHANGED <<parserVars, pc, status, exit_status, i, prev_fd, pipefd, launched,
                   pids, pid, fds, nprocs, out, cwd, home>>

\* lines 368, 372: all children waited for
WaitDone ==
    /\ pc = "wait"
    /\ j >= launched
    /\ Return(1)
    /\ UNCHANGED <<parserVars, osVars>>

\* ------------------------------------------------------------ the reaper
Zombies == { p \in Pids : procs[p].st = "zombie" }

\* main, lines 426-428: waitpid(-1, NULL, WNOHANG) found a terminated child
ReapOne ==
    /\ pc = "reap"
    /\ \E p \in Zombies : procs' = [procs EXCEPT ![p].st = "reaped"]
    /\ UNCHANGED <<parserVars, pc, status, exit_status, localVars, fds, nprocs, out,
                   cwd, home>>

\* main, lines 426-429: waitpid(-1, NULL, WNOHANG) found none
ReapEnd ==
    /\ pc = "reap"
    /\ Zombies = {}
    /\ pc' = "read"
    /\ line' = <<>>
    /\ UNCHANGED <<commands, num_commands, err, nread, status, exit_status, localVars,
                   osVars>>

\* ------------------------------------------------------------ the children
\* (followed for as long as the shell runs)
\* ChildWire forgetting close(pipefd[0])
ChildWire_KeepRead(p) ==
    /\ pc # "done"
    /\ procs[p].st = "forked"
    /\ LET c == procs[p]
           t1 == IF c.prev_fd # -1 THEN dup2(c.fds, c.prev_fd, STDIN_FILENO) ELSE c.fds
           t2 == IF c.i < c.n - 1 THEN dup2(t1, c.pipefd[2], STDOUT_FILENO) ELSE t1
           t3 == IF c.prev_fd # -1 THEN close(t2, c.prev_fd) ELSE t2
           t4 == IF c.i < c.n - 1 THEN close(t3, c.pipefd[2]) ELSE t3
       IN procs' = [procs EXCEPT ![p].st = "wired", ![p].fds = t4]
    /\ UNCHANGED <<parserVars, pc, status, exit_status, localVars, fds, nprocs, out,
                   cwd, home>>

\* lines 324-337: wire the standard streams to the pipes, close the originals
ChildWire(p) ==
    /\ pc # "done"
    /\ procs[p].st = "forked"
    /\ LET c == procs[p]
           t1 == IF c.prev_fd # -1 THEN dup2(c.fds, c.prev_fd, STDIN_FILENO) ELSE c.fds
           t2 == IF c.i < c.n - 1 THEN dup2(t1, c.pipefd[2], STDOUT_FILENO) ELSE t1
           t3 == IF c.prev_fd # -1 THEN close(t2, c.prev_fd) ELSE t2
           t4 == IF c.i < c.n - 1 THEN close(close(t3, c.pipefd[1]), c.pipefd[2]) ELSE t3
       IN procs' = [procs EXCEPT ![p].st = "wired", ![p].fds = t4]
    /\ UNCHANGED <<parserVars, pc, status, exit_status, localVars, fds, nprocs, out,
                   cwd, home>>

\* redirect_io without the output half (lines 242-254)
redirect_io_InputOnly(cmd, t, in_ok, out_ok) ==
    IF cmd.input_file # NULL /\ ~in_ok THEN [rc |-> -1, fds |-> t]
    ELSE IF cmd.input_file # NULL
    THEN [rc |-> 0, fds |-> [t EXCEPT ![STDIN_FILENO] = FileIn]]
    ELSE [rc |-> 0, fds |-> t]

\* lines 228-256: redirect_io; in_ok and out_ok say whether the file can be
\* opened and made the standard stream
redirect_io(cmd, t, in_ok, out_ok) ==
    LET inp == IF cmd.input_file # NULL /\ in_ok
               THEN [t EXCEPT ![STDIN_FILENO] = FileIn] ELSE t
    IN
    IF cmd.input_file # NULL /\ ~in_ok THEN [rc |-> -1, fds |-> t]
    ELSE IF cmd.output_file # NULL /\ ~out_ok THEN [rc |-> -1, fds |-> inp]
    ELSE IF cmd.output_file # NULL
    THEN [rc |-> 0, fds |-> [inp EXCEPT ![STDOUT_FILENO] = FileOut]]
    ELSE [rc |-> 0, fds |-> inp]

\* _exit, or the end of the program: every descriptor is closed, the memory is gone
Exited(c, code) ==
    [st |-> "zombie", call |-> c.call, i |-> c.i, n |-> c.n, prev_fd |-> -1,
     pipefd |-> <<GarbageFd, GarbageFd>>, cmd |-> ChildCommand(InitCommand),
     fds |-> NoFds, code |-> code, cwd |-> <<>>, rio |-> c.rio]

\* what the file system may answer to the opens of redirect_io
OpenChoices(name) == IF name = NULL THEN {TRUE} ELSE BOOLEAN

\* ChildExec without the test of what redirect_io returned
ChildExec_IgnoreRedirect(p) ==
    /\ pc # "done"
    /\ procs[p].st = "wired"
    /\ \E c \in {procs[p]} :
       \E in_ok \in OpenChoices(c.cmd.input_file),
          out_ok \in OpenChoices(c.cmd.output_file), found \in BOOLEAN :
       \E r \in {redirect_io(c.cmd, c.fds, in_ok, out_ok)} :
       \E d \in {[c EXCEPT !.fds = r.fds, !.rio = r.rc]} :
         procs' = [procs EXCEPT ![p] =
                IF ~found THEN Exited(d, 127) ELSE [d EXCEPT !.st = "running"]]
    /\ UNCHANGED <<parserVars, pc, status, exit_status, localVars, fds, nprocs, out,
                   cwd, home>>

\* lines 338-344: redirections, then execvp; found says whether the program can
\* be resolved and executed; rio keeps what redirect_io returned
ChildExec(p) ==
    /\ pc # "done"
    /\ procs[p].st = "wired"
    /\ \E c \in {procs[p]} :
       \E in_ok \in OpenChoices(c.cmd.input_file),
          out_ok \in OpenChoices(c.cmd.output_file), found \in BOOLEAN :
       \E r \in {redirect_io(c.cmd, c.fds, in_ok, out_ok)} :
       \E d \in {[c EXCEPT !.fds = r.fds, !.rio = r.rc]} :
         procs' = [procs EXCEPT ![p] =
                IF r.rc # 0 THEN Exited(d, 1)
                ELSE IF ~found THEN Exited(d, 127)
                ELSE [d EXCEPT !.st = "running"]]
    /\ UNCHANGED <<parserVars, pc, status, exit_status, localVars, fds, nprocs, out,
                   cwd, home>>

\* the program the child runs ends
ChildExit(p) ==
    /\ pc # "done"
    /\ procs[p].st = "running"
    /\ procs' = [procs EXCEPT ![p] = Exited(procs[p], 0)]
    /\ UNCHANGED <<parserVars, pc, status, exit_status, localVars, fds, nprocs, out,
                   cwd, home>>

ReadLine == ReadFrom(ExecLines, MaxLines)

ParentNext ==
    \/ ReadLine \/ ParseLine
    \/ BuiltinExit \/ BuiltinCd \/ ExecStart
    \/ LoopDone \/ PipeOK \/ PipeFail \/ ForkOK \/ ForkFail \/ ParentBranch
    \/ ClosePrev \/ Notify \/ WaitChild \/ WaitDone
    \/ ReapOne \/ ReapEnd

ChildNext == \E p \in Pids : ChildWire(p) \/ ChildExec(p) \/ ChildExit(p)

Next == ParentNext \/ ChildNext

Spec == Init /\ [][Next]_vars

ParseRead == ReadFrom(ParseLines, 1)

ParseNext == ParseRead \/ ParseLine

ParseSpec == Init /\ [][ParseNext]_vars

\* ------------------------------------------------------------ properties
\* the processes spawned by the execute_commands call of line c
Spawned(c) == { p \in Pids : procs[p].st # "none" /\ procs[p].call = c }

\* the process running stage s of line c, if it was spawned
StageProc(c, s) == { p \in Spawned(c) : procs[p].i = s }

\* the processes (0 is the shell) that hold descriptor description d open
Holders(d) ==
    { p \in Pids : \E f \in DOMAIN procs[p].fds : procs[p].fds[f] = d }
    \cup (IF \E f \in DOMAIN fds : fds[f] = d THEN {0} ELSE {})

\* C1: execute_commands keeps the pid of every process it spawned, and when it has
\* returned from a foreground pipeline every one of them has terminated and been
\* waited for.
C1_ForegroundWait ==
    /\ pc \in {"close", "notify", "wait"} =>
          { pids[k] : k \in 0..(launched - 1) } = Spawned(nread)
    /\ (pc \in {"reap", "read", "done"} /\ Spawned(nread) # {}
            /\ ~commands[num_commands - 1].background) =>
          \A p \in Spawned(nread) : procs[p].st = "reaped"

\* a foreground pipeline of two or more processes has returned
C1_Witness ==
    /\ pc = "reap"
    /\ Cardinality(Spawned(nread)) >= 2
    /\ ~commands[num_commands - 1].background
    /\ \A p \in Spawned(nread) : procs[p].st = "reaped"

\* C2: at the top of iteration i the shell holds no pipe descriptor but the read
\* end of pipe i-1; around the fork of stage i it holds at most that and the two
\* ends of pipe i; after the loop at most the stale prev_fd; and outside the spawn
\* loop (so between lines) none at all.
C2_ParentDescriptors ==
    /\ pc = "loop" =>
          /\ PipeFds(fds) = (IF i > 0 /\ i < num_commands THEN {prev_fd} ELSE {})
          /\ \A f \in PipeFds(fds) : fds[f] = PipeR(PipeId(nread, i - 1))
    /\ pc \in {"fork", "parent"} =>
          /\ PipeFds(fds) = (IF i > 0 THEN {prev_fd} ELSE {})
                \cup (IF i < num_commands - 1 THEN {pipefd[1], pipefd[2]} ELSE {})
          /\ i > 0 => fds[prev_fd] = PipeR(PipeId(nread, i - 1))
          /\ i < num_commands - 1 =>
                /\ fds[pipefd[1]] = PipeR(PipeId(nread, i))
                /\ fds[pipefd[2]] = PipeW(PipeId(nread, i))
    /\ pc = "close" => PipeFds(fds) \subseteq {prev_fd}
    /\ pc \notin {"loop", "fork", "parent", "close"} => PipeFds(fds) = {}

\* the shell is back at the prompt after a three-stage pipeline, holding no pipe
C2_Witness ==
    /\ pc = "read"
    /\ StageProc(nread, 2) # {}
    /\ PipeFds(fds) = {}

\* C3: a child that has wired its streams (and so one that runs its program)
\* holds no pipe descriptor but its standard input, the read end of pipe i-1, and
\* its standard output, the write end of pipe i; and once stage s+1 is forked the
\* write end of pipe s is held by stage s alone, by nobody once stage s has exited.
C3_ChildDescriptors ==
    /\ \A p \in Pids : procs[p].st \in {"wired", "running"} =>
          LET c == procs[p] IN
          /\ PipeFds(c.fds) \subseteq {STDIN_FILENO, STDOUT_FILENO}
          /\ c.fds[STDIN_FILENO].kind = "pipe_r" =>
                c.i > 0 /\ c.fds[STDIN_FILENO] = PipeR(PipeId(c.call, c.i - 1))
          /\ c.fds[STDOUT_FILENO].kind = "pipe_w" =>
                c.i < c.n - 1 /\ c.fds[STDOUT_FILENO] = PipeW(PipeId(c.call, c.i))
    /\ \A p \in Pids : (procs[p].st # "none" /\ procs[p].i > 0) =>
          Holders(PipeW(PipeId(procs[p].call, procs[p].i - 1)))
              \subseteq StageProc(procs[p].call, procs[p].i - 1)

\* the middle stage of a three-stage pipeline runs between its two pipes after the
\* first stage has exited: nobody holds the write end of the pipe it reads
C3_Witness ==
    \E p \in Pids :
        /\ procs[p].st = "running" /\ procs[p].i = 1 /\ procs[p].n = 3
        /\ procs[p].fds[STDIN_FILENO] = PipeR(PipeId(procs[p].call, 0))
        /\ procs[p].fds[STDOUT_FILENO] = PipeW(PipeId(procs[p].call, 1))
        /\ \E q \in StageProc(procs[p].call, 0) : procs[q].st = "zombie"
        /\ Holders(PipeW(PipeId(procs[p].call, 0))) = {}

\* the program points of execute_commands
ExecPcs == {"exec", "loop", "fork", "parent", "close", "notify", "wait"}

\* C4: a background pipeline makes no blocking wait, its notification is the pid
\* of the process spawned last by the call, and the call returns 1.
C4_BackgroundLaunch ==
    /\ pc = "wait" => ~commands[num_commands - 1].background
    /\ \A k \in 1..Len(out) :
          /\ out[k].launched >= 1
          /\ out[k].printed \in StageProc(out[k].call, out[k].launched - 1)
    /\ pc = "reap" => status = 1

\* C5: the step that ends the processing of a line (a syntax error, an empty
\* line, the end of the reaper) leaves no process unreaped that had already
\* terminated.
C5_ReapAfterEveryLine ==
    [][(pc' = "read" /\ (pc \in {"parse", "reap"} \/ (pc = "read" /\ nread' = nread + 1)))
          => \A p \in Pids : procs[p].st = "zombie" => procs'[p].st # "zombie"]_vars

AfterLoop ==
    /\ pc \in {"close", "notify", "wait"} =>
          /\ launched = i /\ i <= num_commands
          /\ { procs[p].i : p \in Spawned(nread) } = 0..(i - 1)
    /\ pc = "close" => PipeFds(fds) \subseteq {prev_fd}
    /\ pc \in {"notify", "wait"} => PipeFds(fds) = {}

\* C7: after the spawn loop, however it ended (a failed pipe() or fork() at stage
\* i included), no stage from i on has been spawned, every pipe descriptor the
\* shell had opened is closed, and the call returns 1 to the reaper.
C7_ResourceFailure ==
    [][/\ AfterLoop'
       /\ (pc \in {"notify", "wait"} /\ pc' \notin {"notify", "wait"}) =>
             /\ pc' = "reap" /\ status' = 1
             /\ UNCHANGED <<fds, nprocs>>]_vars

\* a foreground pipeline whose spawning was aborted after its first stage
C7_Witness ==
    /\ pc = "wait"
    /\ i >= 1 /\ i < num_commands
    /\ PipeFds(fds) = {}

\* C8: execute_commands returns 2 exactly for a single stage whose first argument
\* is "exit", straight from its entry and with nothing spawned, and 1 otherwise;
\* main leaves its loop only then or at end of input, and returns 0.
C8_ControlSignal ==
    [][/\ (pc \in ExecPcs /\ pc' \notin ExecPcs) =>
             /\ status' = (IF num_commands = 1 /\ ArgAt(commands[0].args, 0) = ExitWord
                           THEN 2 ELSE 1)
             /\ status' = 2 => pc = "exec" /\ Spawned(nread) = {} /\ UNCHANGED procs
             /\ pc' = (IF status' = 2 THEN "done" ELSE "reap")
       /\ (pc # "done" /\ pc' = "done") => (pc = "read" \/ status' = 2)
       /\ exit_status' = (IF pc' = "done" THEN 0 ELSE NoCode)]_vars

\* the shell has ended on the exit built-in
C8_Witness ==
    /\ pc = "done" /\ status = 2 /\ exit_status = 0
    /\ ArgAt(commands[0].args, 0) = ExitWord

\* ------------------------------------------------------------ what a line says
\* the positions of '|' in a line, and its '|'-separated segments, from 1
Bars(l) == { k \in 1..Len(l) : l[k] = "|" }
SegCount(l) == Cardinality(Bars(l)) + 1
NthBar(l, n) ==
    IF n = 0 THEN 0
    ELSE IF n > Cardinality(Bars(l)) THEN Len(l) + 1
    ELSE CHOOSE k \in Bars(l) : Cardinality({ m \in Bars(l) : m < k }) = n - 1
Segment(l, n) == SubSeq(l, NthBar(l, n - 1) + 1, NthBar(l, n) - 1)

\* a text without the whitespace around it
Trimmed(t) ==
    LET ns == { k \in 1..Len(t) : ~isspace(t[k]) } IN
    IF ns = {} THEN <<>>
    ELSE SubSeq(t, CHOOSE a \in ns : \A b \in ns : a <= b,
                   CHOOSE a \in ns : \A b \in ns : a >= b)

\* the tokens of a text, in order: its longest runs without a space or a tab
Blank == {" ", "\t"}
TokStarts(t) == { b \in 1..Len(t) : t[b] \notin Blank /\ (b = 1 \/ t[b - 1] \in Blank) }
TokEnd(t, b) == CHOOSE e \in b..Len(t) : e = Len(t) \/ t[e + 1] \in Blank
Tokens(t) ==
    [k \in 1..Cardinality(TokStarts(t)) |->
        LET b == CHOOSE c \in TokStarts(t) :
                    Cardinality({ d \in TokStarts(t) : d < c }) = k - 1
        IN SubSeq(t, b, TokEnd(t, b))]

\* token k of w is the operand of a redirection: the '<' and '>' tokens right
\* before it are an odd number (the first is an operator, the second its operand,
\* the third an operator again)
Redirs == { <<"<">>, <<">">> }
IsOperand(w, k) ==
    LET plain == { m \in 1..(k - 1) : w[m] \notin Redirs } \cup {0} IN
    (k - 1 - (CHOOSE a \in plain : \A b \in plain : a >= b)) % 2 = 1
\* the tokens of w that act as the operator sym
Operators(w, sym) == { k \in 1..Len(w) : w[k] = sym /\ ~IsOperand(w, k) }
\* the command words of w
CommandWords(w) ==
    { k \in 1..Len(w) : ~IsOperand(w, k) /\ w[k] \notin Redirs \cup {<<"&">>} }

\* segment n of l declares a redirection sym
Declares(l, n, sym) ==
    LET w == Tokens(Trimmed(Segment(l, n))) IN
    \E k \in Operators(w, sym) : k < Len(w)

\* the segments of l that declare a redirection where a pipeline allows none
Misplaced(l) ==
    { n \in 1..SegCount(l) :
         \/ n # 1 /\ Declares(l, n, <<"<">>)
         \/ n # SegCount(l) /\ Declares(l, n, <<">">>) }

\* segment n of l holds a command word and uses the operators legally, where they
\* stand in the pipeline apart
LegalSegment(l, n) ==
    LET w == Tokens(Trimmed(Segment(l, n))) IN
    /\ Cardinality(CommandWords(w)) \in 1..(MAX_ARGS - 1)
    /\ \A sym \in Redirs :
          Cardinality(Operators(w, sym)) <= 1 /\ Len(w) \notin Operators(w, sym)
    /\ \A k \in Operators(w, <<"&">>) : k = Len(w) /\ n = SegCount(l)

WellFormed(l) == SegCount(l) <= MAX_PIPE /\ \A n \in 1..SegCount(l) : LegalSegment(l, n)

Legal(l) == WellFormed(l) /\ Misplaced(l) = {}

\* C9: when parse_command succeeds on a line, the number of stages it returns is
\* the number of '|'-separated segments of the line, between 1 and MAX_PIPE, and
\* every stage has one argument at least, its args holding NULL exactly from the
\* slot after the last argument on; and every line of at most MAX_PIPE segments
\* that each hold a command word and use the operators legally parses
\* successfully.
C9_ParserStageCount ==
    [][pc = "parse" =>
          /\ pc' = "exec" =>
                /\ num_commands' = SegCount(line)
                /\ num_commands' \in 1..MAX_PIPE
                /\ \A k \in 0..(num_commands' - 1) :
                      \E n \in 1..(MAX_ARGS - 1) :
                         \A m \in 0..(MAX_ARGS - 1) :
                            (ArgAt(commands'[k].args, m) # NULL) <=> (m < n)
          /\ Legal(line) => pc' = "exec"]_vars

\* a line of MAX_PIPE segments has been parsed
C9_Witness == pc = "exec" /\ num_commands = MAX_PIPE /\ Legal(line)

\* C10: a pipeline of several stages returned by the parser has an input file on
\* stage 0 at most and an output file on the last stage at most; a line that
\* declares a redirection on another segment is rejected; the placement message
\* names, from 1, a segment that declares such a redirection, and it is the
\* message, with the first such segment, for every line that has no other fault.
C10_RedirectionPlacement ==
    [][pc = "parse" =>
          /\ (pc' = "exec" /\ num_commands' > 1) =>
                \A k \in 0..(num_commands' - 1) :
                   /\ k # 0 => commands'[k].input_file = NULL
                   /\ k # num_commands' - 1 => commands'[k].output_file = NULL
          /\ Misplaced(line) # {} => pc' = "read" /\ err' # NoMsg
          /\ err'.msg = "input redirection not allowed for command %d in pipeline"
                => err'.n # 1 /\ err'.n \in Misplaced(line)
                   /\ Declares(line, err'.n, <<"<">>)
          /\ err'.msg = "output redirection not allowed for command %d in pipeline"
                => err'.n # SegCount(line) /\ err'.n \in Misplaced(line)
                   /\ Declares(line, err'.n, <<">">>)
          /\ (WellFormed(line) /\ Misplaced(line) # {}) =>
                LET n == CHOOSE a \in Misplaced(line) : \A b \in Misplaced(line) : a <= b
                IN err' = Msg(IF n # 1 /\ Declares(line, n, <<"<">>)
                              THEN "input redirection not allowed for command %d in pipeline"
                              ELSE "output redirection not allowed for command %d in pipeline",
                              n)]_vars

\* the line a > a|a has been rejected for the output file of its first segment
C10_Witness ==
    /\ pc = "read" /\ nread = 1
    /\ err = Msg("output redirection not allowed for command %d in pipeline", 1)

\* element m, from 0, of a set of numbers in increasing order
KthOf(S, m) == CHOOSE a \in S : Cardinality({ b \in S : b < a }) = m

\* the tokens of segment n of l
SegTokens(l, n) == Tokens(Trimmed(Segment(l, n)))

\* the number of tokens of l that are '|' alone
BarTokens(l) == Cardinality({ k \in 1..Len(Tokens(l)) : Tokens(l)[k] = <<"|">> })

\* C11 as stated: a '|' separates stages only where it is a token of its own, so
\* the stages of a parsed line are one more than its '|' tokens.
C11_PipeTokenExact ==
    [][(pc = "parse" /\ pc' = "exec") => num_commands' = BarTokens(line) + 1]_vars

\* C11 as the code has it: every '|' of the line separates two stages, next to
\* other characters or not; no argument and no file name of a parsed line holds
\* a '|'.
C11_PipeEverywhere ==
    [][(pc = "parse" /\ pc' = "exec") =>
          /\ num_commands' = Cardinality(Bars(line)) + 1
          /\ \A k \in 0..(num_commands' - 1) :
                LET c == commands'[k]
                    words == { ArgAt(c.args, m) : m \in 0..Len(line) }
                                \cup {c.input_file, c.output_file}
                IN \A w \in words \ {NULL} : \A x \in 1..Len(w) : w[x] # "|"]_vars

\* the line a|a has been parsed into two stages
C11_Witness ==
    /\ pc = "exec" /\ line = <<"a", "|", "a">>
    /\ num_commands = 2
    /\ ArgAt(commands[0].args, 0) = <<"a">> /\ ArgAt(commands[1].args, 0) = <<"a">>

\* C12: a '&' token that is not the operand of a redirection is accepted only as
\* the last token of the last segment, and then the last stage is background; in
\* another segment, or with a token after it, the line is rejected.  No stage
\* but the last is ever background, the last one is only by such a token, and
\* the arguments of a stage are, in order, the tokens of its segment that are
\* neither operators nor operands, whatever operator characters they hold.
C12_BackgroundMarker ==
    [][pc = "parse" =>
          LET N == SegCount(line)
              amps(n) == Operators(SegTokens(line, n), <<"&">>)
          IN
          /\ (\E n \in 1..N : \E k \in amps(n) : n # N \/ k # Len(SegTokens(line, n)))
                => pc' = "read" /\ err' # NoMsg
          /\ pc' = "exec" =>
                /\ \A n \in 1..N :
                      LET w == SegTokens(line, n)
                          c == commands'[n - 1]
                      IN /\ c.background = (n = N /\ amps(n) # {})
                         /\ \A m \in 0..(Cardinality(CommandWords(w)) - 1) :
                               ArgAt(c.args, m) = w[KthOf(CommandWords(w), m)]
                         /\ ArgAt(c.args, Cardinality(CommandWords(w))) = NULL]_vars

\* the line a|a & has been parsed: its last stage is background, with one argument
C12_Witness ==
    /\ pc = "exec" /\ num_commands = 2
    /\ commands[1].background = TRUE /\ commands[0].background = FALSE
    /\ ArgAt(commands[1].args, 0) = <<"a">> /\ ArgAt(commands[1].args, 1) = NULL

\* C13: a single-stage cd returns 1 having spawned nothing, and leaves the shell
\* in the directory of its argument, of HOME without one, or where it was with
\* neither ('.'); or, the change failing, where it was with an error written.
\* No other step changes the working directory; a process gets at its fork the
\* directory the shell is in, and keeps it.
C13_WorkingDirectory ==
    [][LET cd == pc = "exec" /\ num_commands = 1 /\ ArgAt(commands[0].args, 0) = CdWord
           arg == ArgAt(commands[0].args, 1)
           dir == IF arg # NULL THEN arg ELSE IF home' # NULL THEN home' ELSE <<".">>
       IN
       /\ (cd /\ pc' # "exec") =>
             /\ pc' = "reap" /\ status' = 1
             /\ UNCHANGED <<procs, nprocs, fds, out>>
             /\ \/ cwd' = (IF dir = <<".">> THEN cwd ELSE dir) /\ err' = err
                \/ cwd' = cwd /\ err' = Msg("cd: %s: %s", 0)
       /\ cwd' # cwd => cd
       /\ \A p \in Pids :
             /\ (procs[p].st = "none" /\ procs'[p].st # "none") => procs'[p].cwd = cwd
             /\ (procs[p].st # "none" /\ procs'[p].st \in {"forked", "wired", "running"})
                   => procs'[p].cwd = procs[p].cwd]_vars

\* after a cd to HOME on the first line, a process of the second line runs there
C13_Witness ==
    /\ nread = 2 /\ cwd = <<"h">>
    /\ \E p \in Spawned(2) : procs[p].st = "running" /\ procs[p].cwd = <<"h">>

\* C14: a process whose redirect_io failed ends with status 1 and never runs its
\* program, and only such a process ends with 1; one whose program was not found
\* ends with 127. The step in which a process fails changes nothing but that
\* process. A call whose pipe() and fork() calls all succeeded has spawned every
\* stage whatever became of the others, and returns 1, a foreground one having
\* waited for them all.
C14_ChildFailureIsolation ==
    [][/\ \A p \in Pids :
             /\ procs'[p].rio = -1 <=>
                   (procs'[p].st \in {"zombie", "reaped"} /\ procs'[p].code = 1)
             /\ procs'[p].st = "running" => procs'[p].rio = 0
             /\ (procs[p].st = "wired" /\ procs'[p].st # "wired") =>
                   /\ procs'[p].st \in {"running", "zombie"}
                   /\ procs'[p].st = "zombie" => procs'[p].code \in {1, 127}
                   /\ \A q \in Pids \ {p} : procs'[q] = procs[q]
                   /\ UNCHANGED <<parserVars, pc, status, exit_status, localVars, fds,
                                  nprocs, out, cwd, home>>
       /\ (pc \in {"notify", "wait"} /\ pc' \notin {"notify", "wait"} /\ i = num_commands) =>
             /\ pc' = "reap" /\ status' = 1
             /\ \A s \in 0..(num_commands - 1) : StageProc(nread, s) # {}
             /\ pc = "wait" => \A p \in Spawned(nread) : procs'[p].st = "reaped"]_vars

\* a foreground pipeline has returned: its last stage failed in redirect_io, its
\* first stage ran its program to the end, and both were waited for
C14_Witness ==
    /\ pc = "reap" /\ num_commands >= 2
    /\ \E p \in StageProc(nread, num_commands - 1) :
          procs[p].st = "reaped" /\ procs[p].code = 1
    /\ \E p \in StageProc(nread, 0) : procs[p].st = "reaped" /\ procs[p].code = 0

\* C15: a line of more than MAX_PIPE segments, or with a segment of more than
\* MAX_ARGS-1 command words, is rejected; a line within both limits that is
\* otherwise legal is accepted, the limits themselves included; and whatever the
\* line, no stage is stored past commands[MAX_PIPE-1] and no argument past
\* args[MAX_ARGS-2], the terminating NULL being at args[MAX_ARGS-1] at most.
C15_CapacityBoundaries ==
    [][pc = "parse" =>
          LET over == \/ SegCount(line) > MAX_PIPE
                      \/ \E n \in 1..SegCount(line) :
                            Cardinality(CommandWords(SegTokens(line, n))) > MAX_ARGS - 1
          IN
          /\ over => pc' # "exec"
          /\ (~over /\ Misplaced(line) = {}
                /\ \A n \in 1..SegCount(line) :
                      LET w == SegTokens(line, n) IN
                      /\ CommandWords(w) # {}
                      /\ \A sym \in Redirs :
                            Cardinality(Operators(w, sym)) <= 1 /\ Len(w) \notin Operators(w, sym)
                      /\ \A k \in Operators(w, <<"&">>) : k = Len(w) /\ n = SegCount(line))
                => pc' = "exec"
          /\ pc' = "exec" => num_commands' <= MAX_PIPE
          /\ DOMAIN commands' = 0..(MAX_PIPE - 1)
          /\ \A k \in DOMAIN commands' :
                commands'[k] # GarbageCommand => Len(commands'[k].args.at) <= MAX_ARGS - 1]_vars

\* the line of MAX_ARGS-1 words has been parsed: the last slot but one is used
C15_Witness ==
    /\ pc = "exec" /\ num_commands = 1
    /\ ArgAt(commands[0].args, MAX_ARGS - 2) # NULL
    /\ ArgAt(commands[0].args, MAX_ARGS - 1) = NULL

\* the operand of the operator sym among the tokens w (NULL without the operator)
OperandOf(w, sym) ==
    IF Operators(w, sym) = {} THEN NULL ELSE w[(CHOOSE k \in Operators(w, sym) : TRUE) + 1]

\* C16: a line with a '<' or '>' operator that is the last token of its segment,
\* or with two '<' or two '>' operators in one segment, is rejected. In every
\* stage of an accepted line input_file is the token after the '<' operator,
\* whatever it is, or NULL without one, and output_file likewise for '>'; the
\* stage has as many arguments as its segment has tokens that are neither
\* operators nor operands.
C16_RedirectionTokens ==
    [][pc = "parse" =>
          /\ (\E n \in 1..SegCount(line) : \E sym \in Redirs :
                 LET w == SegTokens(line, n) IN
                 Cardinality(Operators(w, sym)) >= 2 \/ Len(w) \in Operators(w, sym))
                => pc' = "read" /\ err' # NoMsg
          /\ pc' = "exec" =>
                \A n \in 1..SegCount(line) :
                   LET w == SegTokens(line, n)
                       c == commands'[n - 1]
                   IN /\ c.input_file = OperandOf(w, <<"<">>)
                      /\ c.output_file = OperandOf(w, <<">">>)
                      /\ ArgAt(c.args, Cardinality(CommandWords(w)) - 1) # NULL
                      /\ ArgAt(c.args, Cardinality(CommandWords(w))) = NULL]_vars

\* the line a <  & has been parsed (two blanks after the operator): the input
\* source of its stage is the file named &, and the stage is not background
C16_Witness ==
    /\ pc = "exec" /\ num_commands = 1
    /\ line = <<"a", " ", "<", " ", " ", "&">>
    /\ commands[0].input_file = <<"&">> /\ commands[0].background = FALSE
    /\ ArgAt(commands[0].args, 1) = NULL

\* main's array before any line was parsed (line 385)
FreshCommands == [k \in 0..(MAX_PIPE - 1) |-> GarbageCommand]

\* C17: whatever the lines parsed and executed before left in the commands
\* array, parse_command accepts or rejects a line, writes the message, and
\* returns the stage count and the stages that it does for the same text on the
\* array main starts with.
C17_ParserPurity ==
    [][(pc = "parse" /\ pc' # "parse") =>
          LET r == parse_command(line, FreshCommands, 0) IN
          /\ (pc' = "exec") = (r.rc = 0)
          /\ err' = r.err
          /\ pc' = "exec" =>
                /\ num_commands' = r.num_commands
                /\ \A k \in 0..(num_commands' - 1) : commands'[k] = r.commands[k]]_vars

\* the second line, of one stage without redirection, has been parsed into the
\* array where the first line left a second stage with an output file
C17_Witness ==
    /\ nread = 2 /\ pc = "exec" /\ num_commands = 1
    /\ commands[1] # GarbageCommand /\ commands[1].output_file = <<"f">>
    /\ commands[0].output_file = NULL /\ commands[0].background = FALSE

\* the pipe end, or else the inherited stream, that stage c.i has as stream fd
\* once its pipes are wired
WiredTo(c, fd) ==
    IF fd = STDIN_FILENO /\ c.i > 0 THEN PipeR(PipeId(c.call, c.i - 1))
    ELSE IF fd = STDOUT_FILENO /\ c.i < c.n - 1 THEN PipeW(PipeId(c.call, c.i))
    ELSE Tty

\* C18: a process just forked holds the pipes next to its stage, already made,
\* and the shell's standard streams; once wired, its standard input and output
\* are those pipe ends (the inherited stream where the stage has no pipe), no
\* redirection applied yet; and when it runs its program each of the two is the
\* file of the stage's redirection if it has one, the wired stream otherwise.
C18_WiringOrder ==
    \A p \in Pids :
       LET c == procs[p] IN
       /\ c.st = "forked" =>
             /\ c.fds[STDIN_FILENO] = Tty /\ c.fds[STDOUT_FILENO] = Tty
             /\ c.i > 0 =>
                   c.prev_fd \in DOMAIN c.fds /\ c.fds[c.prev_fd] = WiredTo(c, STDIN_FILENO)
             /\ c.i < c.n - 1 =>
                   /\ c.pipefd[1] \in DOMAIN c.fds /\ c.pipefd[2] \in DOMAIN c.fds
                   /\ c.fds[c.pipefd[1]] = PipeR(PipeId(c.call, c.i))
                   /\ c.fds[c.pipefd[2]] = WiredTo(c, STDOUT_FILENO)
       /\ c.st = "wired" =>
             /\ c.fds[STDIN_FILENO] = WiredTo(c, STDIN_FILENO)
             /\ c.fds[STDOUT_FILENO] = WiredTo(c, STDOUT_FILENO)
       /\ c.st = "running" =>
             /\ c.fds[STDIN_FILENO] =
                   (IF c.cmd.input_file # NULL THEN FileIn ELSE WiredTo(c, STDIN_FILENO))
             /\ c.fds[STDOUT_FILENO] =
                   (IF c.cmd.output_file # NULL THEN FileOut ELSE WiredTo(c, STDOUT_FILENO))

\* the last stage of a pipeline runs its program reading the pipe and writing
\* the file of its redirection
C18_Witness ==
    \E p \in Pids :
        /\ procs[p].st = "running" /\ procs[p].i = procs[p].n - 1 /\ procs[p].i > 0
        /\ procs[p].cmd.output_file = <<"f">>
        /\ procs[p].fds[STDOUT_FILENO] = FileOut
        /\ procs[p].fds[STDIN_FILENO] = PipeR(PipeId(procs[p].call, procs[p].i - 1))

\* C19: the step that prints the background notification reads pids at
\* launched - 1 with launched >= 1, an index within the array that this call has
\* written, holding the pid of a process the call spawned.
C19_PidsIndexInRange ==
    [][(pc = "notify" /\ pc' # "notify") =>
          /\ launched >= 1
          /\ launched - 1 \in DOMAIN pids
          /\ pids[launched - 1] \in Spawned(nread)]_vars

\* ------------------------------------------------------------ programs that
\* end on end of stream only
\* what is assumed of the program of a stage: that of stage 0 ends; another one
\* ends once its standard input is at end of stream, no write end of pipe i-1
\* being open anywhere, or once nobody holds the read end of the pipe it writes
MayEnd(c) ==
    \/ c.i = 0
    \/ Holders(PipeW(PipeId(c.call, c.i - 1))) = {}
    \/ c.i < c.n - 1 /\ Holders(PipeR(PipeId(c.call, c.i))) = {}

\* the program the child runs ends, as assumed
ChildEnd(p) ==
    /\ pc # "done"
    /\ procs[p].st = "running"
    /\ MayEnd(procs[p])
    /\ procs' = [procs EXCEPT ![p] = Exited(procs[p], 0)]
    /\ UNCHANGED <<parserVars, pc, status, exit_status, localVars, fds, nprocs, out,
                   cwd, home>>

\* one line is read
ReadOne == ReadFrom(ExecLines, 1)

WaitParent ==
    \/ ReadOne \/ ParseLine
    \/ BuiltinExit \/ BuiltinCd \/ ExecStart
    \/ LoopDone \/ PipeOK \/ PipeFail \/ ForkOK \/ ForkFail \/ ParentBranch
    \/ ClosePrev \/ Notify \/ WaitChild \/ WaitDone
    \/ ReapOne \/ ReapEnd

WaitChildren(p) == ChildWire(p) \/ ChildExec(p) \/ ChildEnd(p)

WaitNext == WaitParent \/ \E p \in Pids : WaitChildren(p)

\* the shell in its wait loop and every process it has spawned are scheduled
WaitSpec ==
    /\ Init /\ [][WaitNext]_vars
    /\ WF_vars(WaitChild \/ WaitDone)
    /\ \A p \in Pids : WF_vars(WaitChildren(p))

\* C20: while the shell waits for a foreground pipeline it holds no pipe
\* descriptor, the write end of the pipe a spawned stage reads is held by the
\* stage before it at most, and the read end of the pipe it writes by itself and
\* the stage after it at most; and the wait ends: the call returns 1.
C20_ForegroundWaitEnds ==
    [](pc = "wait" =>
          /\ PipeFds(fds) = {}
          /\ \A p \in Spawned(nread) :
                /\ procs[p].i > 0 =>
                      Holders(PipeW(PipeId(nread, procs[p].i - 1)))
                          \subseteq StageProc(nread, procs[p].i - 1)
                /\ Holders(PipeR(PipeId(nread, procs[p].i)))
                      \subseteq StageProc(nread, procs[p].i) \cup StageProc(nread, procs[p].i + 1)
          /\ <>(pc = "reap" /\ status = 1))

\* the shell waits for a pipeline of three whose last stage runs its program
\* after the first has ended
C20_Witness ==
    /\ pc = "wait" /\ launched = 3
    /\ \E p \in StageProc(nread, 2) : procs[p].st = "running"
    /\ \E p \in StageProc(nread, 0) : procs[p].st \in {"zombie", "reaped"}
====
